---- MODULE Spec2Model ----
(***************************************************************************)
(* Model of the audio worklet helpers of verbal-web:                       *)
(*   src/audioworklet/mem.cc             vw_alloc, vw_free                 *)
(*   src/audioworklet/pcm16sledecoder.cc vw_pcm16sleDecode                 *)
(*                                                                         *)
(* The decoder is modelled statement by statement: every invocation has a  *)
(* program counter, its own automatic variables and its two buffers.  The  *)
(* widths of int and size_t, the host byte order and what the build does   *)
(* on signed overflow are properties of the build, chosen in Init.         *)
(***************************************************************************)
EXTENDS Integers, Naturals, Sequences, FiniteSets, TLC

VARIABLES
    littleEndian,  \* the host stores the low-order byte first (test of line 10)
    sizeBits,      \* width of size_t in this build
    wraps,         \* signed overflow wraps in this build (else: computed wide)
    src,           \* src[p]: the source byte buffer of invocation p
    dst,           \* dst[p]: the destination float buffer of invocation p
    numSamples,    \* numSamples[p]: the size_t argument of invocation p
    i,             \* i[c]: the loop counter held in storage slot c
    sample,        \* sample[p]: the sample read in the current iteration
    pc,            \* pc[p]: position of invocation p
    rlog,          \* rlog[p]: offsets of src read so far (history)
    wlog,          \* wlog[p]: indices of dst written so far, in order (history)
    overflowed,    \* overflowed[p]: an int operation left the int range (history)
    live,          \* host heap: the regions currently allocated
    held,          \* addresses vw_alloc returned that were not yet released
    lastCall,      \* the last provisioner call (history)
    prevCall       \* the provisioner call before it (history)

decodeVars == <<littleEndian, sizeBits, wraps, src, dst, numSamples, i, sample,
                pc, rlog, wlog, overflowed>>
memVars == <<live, held, lastCall, prevCall>>
vars == <<littleEndian, sizeBits, wraps, src, dst, numSamples, i, sample,
          pc, rlog, wlog, overflowed, live, held, lastCall, prevCall>>

----------------------------------------------------------------------------
(* Bounds of the model.                                                    *)

\* Width of int, scaled down from 32 so that the counter's whole range is walked.
IntBits == 3
\* Longest buffer, in samples, of the concurrent scenario.
ConcSamples == 2
\* Bytes of host heap in the provisioner scenario.
HeapBytes == 3

----------------------------------------------------------------------------
(* Integer types.                                                          *)

RECURSIVE Pow2(_)
Pow2(k) == IF k = 0 THEN 1 ELSE 2 * Pow2(k - 1)

IntMax == Pow2(IntBits - 1) - 1
IntMin == 0 - Pow2(IntBits - 1)

\* The builds: size_t as wide as int (wasm32) or wider (wasm64).
SizeWidths == {IntBits, IntBits + 1}
SizeMax(bits) == Pow2(bits) - 1

\* Two's complement wrap of x into the range of int.
WrapInt(x) == ((x - IntMin) % Pow2(IntBits)) + IntMin

\* The result of an int operation whose mathematical value is x: in range it is
\* x; out of range the behaviour is undefined, and the build either wraps or
\* keeps computing as if int were wide enough.
IntResult(x, w) == IF x >= IntMin /\ x <= IntMax THEN x
                   ELSE IF w THEN WrapInt(x) ELSE x
IntOverflows(x) == x < IntMin \/ x > IntMax

\* Conversion of the int counter to size_t for the comparison with numSamples.
ToSize(x, bits) == x % Pow2(bits)

----------------------------------------------------------------------------
(* Values.                                                                 *)

Bytes == 0 .. 255

\* A sample as read: <<v>>, or <<>> when a byte of it came from outside the
\* buffer and its value is not known.
Indeterminate == <<>>

\* A float is held exactly, as a fraction <<num, den>> in lowest terms with den a
\* power of two.  Every quotient the decoder forms has |num| < 2^24, so float32
\* represents it without rounding.  <<0, 0>> is a float of unknown value, <<>> a
\* destination cell the call has not written.
UnknownFloat == <<0, 0>>
Unwritten == <<>>

RECURSIVE Reduce(_, _)
Reduce(num, den) == IF den > 1 /\ num % 2 = 0
                    THEN Reduce(num \div 2, den \div 2)
                    ELSE <<num, den>>

\* The divisor 32768.0f.
Divisor == 32768

\* s / 32768.0f
DivFloat(s) == IF s = Indeterminate THEN UnknownFloat ELSE Reduce(s[1], Divisor)

\* Conversion of an int value to int16_t.
ToInt16(x) == LET m == x % 65536 IN IF m >= 32768 THEN m - 65536 ELSE m

\* Offset off lies in buf (buffers are sequences, offset 0 is element 1).
InBuffer(buf, off) == off >= 0 /\ off < Len(buf)

\* src16[k] on a little-endian host: the uint16_t whose object representation
\* is the two bytes at offsets 2k and 2k+1, low-order byte first.
FastSample(buf, k) ==
    IF InBuffer(buf, 2 * k) /\ InBuffer(buf, 2 * k + 1)
    THEN <<buf[2 * k + 1] + 256 * buf[2 * k + 2]>>
    ELSE Indeterminate

\* int16_t sample = (src[o0] << 8) | src[o1]
AssemblySample(buf, o0, o1) ==
    IF InBuffer(buf, o0) /\ InBuffer(buf, o1)
    THEN <<ToInt16(buf[o0 + 1] * 256 + buf[o1 + 1])>>
    ELSE Indeterminate

----------------------------------------------------------------------------
(* vw_pcm16sleDecode                                                       *)

Calls == {1, 2}

\* The storage of the loop counter of invocation p: an automatic variable, one
\* per invocation.
StaticCounter(p) == 1
CounterOf(p) == p

\* i < numSamples, the int converted to size_t.
LoopCondInclusive(x, n, bits) == ToSize(x, bits) <= n
LoopCond(x, n, bits) == ToSize(x, bits) < n

\* Lines 9-12 and 16: the byte order test and the loop initialisation.
Enter(p) ==
    /\ pc[p] = "call"
    /\ i' = [i EXCEPT ![CounterOf(p)] = 0]
    /\ pc' = [pc EXCEPT ![p] = "test"]
    /\ UNCHANGED <<littleEndian, sizeBits, wraps, src, dst, numSamples, sample,
                   rlog, wlog, overflowed>>
    /\ UNCHANGED memVars

\* Lines 12 and 16: the loop condition.
Test(p) ==
    /\ pc[p] = "test"
    /\ pc' = [pc EXCEPT ![p] =
                IF LoopCond(i[CounterOf(p)], numSamples[p], sizeBits)
                THEN (IF littleEndian THEN "fast" ELSE "assemble")
                ELSE "done"]
    /\ UNCHANGED <<littleEndian, sizeBits, wraps, src, dst, numSamples, i, sample,
                   rlog, wlog, overflowed>>
    /\ UNCHANGED memVars

\* Line 13, right-hand side: src16[i].
FastRead(p) ==
    /\ pc[p] = "fast"
    /\ LET k == i[CounterOf(p)]
       IN /\ sample' = [sample EXCEPT ![p] = FastSample(src[p], k)]
          /\ rlog' = [rlog EXCEPT ![p] = @ \cup {2 * k, 2 * k + 1}]
    /\ pc' = [pc EXCEPT ![p] = "store"]
    /\ UNCHANGED <<littleEndian, sizeBits, wraps, src, dst, numSamples, i,
                   wlog, overflowed>>
    /\ UNCHANGED memVars

\* Line 17: the sample assembled from two bytes, the offsets computed in int.
AssembleRead(p) ==
    /\ pc[p] = "assemble"
    /\ LET k == i[CounterOf(p)]
           o0 == IntResult(2 * k, wraps)
           o1 == IntResult(o0 + 1, wraps)
       IN /\ sample' = [sample EXCEPT ![p] = AssemblySample(src[p], o0, o1)]
          /\ rlog' = [rlog EXCEPT ![p] = @ \cup {o0, o1}]
          /\ overflowed' = [overflowed EXCEPT ![p] =
                               @ \/ IntOverflows(2 * k) \/ IntOverflows(o0 + 1)]
    /\ pc' = [pc EXCEPT ![p] = "store"]
    /\ UNCHANGED <<littleEndian, sizeBits, wraps, src, dst, numSamples, i, wlog>>
    /\ UNCHANGED memVars

\* Lines 13 and 18: dst[i] = sample / 32768.0f.
Store(p) ==
    /\ pc[p] = "store"
    /\ LET k == i[CounterOf(p)]
       IN /\ dst' = [dst EXCEPT ![p] =
                        IF k >= 0 /\ k < Len(@)
                        THEN [@ EXCEPT ![k + 1] = DivFloat(sample[p])]
                        ELSE @]
          /\ wlog' = [wlog EXCEPT ![p] = Append(@, k)]
    /\ pc' = [pc EXCEPT ![p] = "step"]
    /\ UNCHANGED <<littleEndian, sizeBits, wraps, src, numSamples, i, sample,
                   rlog, overflowed>>
    /\ UNCHANGED memVars

\* Lines 12 and 16: i++.
Step(p) ==
    /\ pc[p] = "step"
    /\ LET k == i[CounterOf(p)]
       IN /\ i' = [i EXCEPT ![CounterOf(p)] = IntResult(k + 1, wraps)]
          /\ overflowed' = [overflowed EXCEPT ![p] = @ \/ IntOverflows(k + 1)]
    /\ pc' = [pc EXCEPT ![p] = "test"]
    /\ UNCHANGED <<littleEndian, sizeBits, wraps, src, dst, numSamples, sample,
                   rlog, wlog>>
    /\ UNCHANGED memVars

NextDecode == \E p \in Calls :
                 \/ Enter(p)
                 \/ Test(p)
                 \/ FastRead(p)
                 \/ AssembleRead(p)
                 \/ Store(p)
                 \/ Step(p)

----------------------------------------------------------------------------
(* The host allocator: malloc and free of the C library, as vw_alloc and   *)
(* vw_free see them.  The heap is the addresses 1 .. HeapBytes; a region   *)
(* is [addr, size] and occupies addr .. addr + size - 1.                   *)

\* The null pointer.
NullPtr == 0

NoRegion == [addr |-> NullPtr, size |-> 0]

Occupied(regions) == UNION { r.addr .. (r.addr + r.size - 1) : r \in regions }

\* What malloc(n) may answer when `regions` are allocated: failure, or a region
\* of at least n bytes (and at least one byte, so that its address is its own)
\* that lies in the heap and overlaps no allocated region.
MallocOutcomes(regions, n) ==
    {NoRegion} \cup
    { r \in [addr : 1 .. HeapBytes, size : 1 .. HeapBytes] :
        /\ r.size >= n
        /\ r.size <= n + 1
        /\ r.addr + r.size - 1 <= HeapBytes
        /\ (r.addr .. (r.addr + r.size - 1)) \cap Occupied(regions) = {} }

\* What free(ptr) leaves allocated; free of the null pointer does nothing.
FreeOutcome(regions, ptr) ==
    IF ptr = NullPtr THEN regions ELSE { r \in regions : r.addr # ptr }

----------------------------------------------------------------------------
(* vw_alloc and vw_free                                                    *)

\* The sizes a caller asks for: up to one byte more than the heap has.
RequestSizes == 0 .. HeapBytes + 1

\* Line 8: the size vw_alloc passes to malloc.
ShortSize(numBytes) == IF numBytes > 0 THEN numBytes - 1 ELSE 0
AllocSize(numBytes) == numBytes

\* Line 15: the pointer vw_free passes to free.
ForgottenPtr(ptr) == NullPtr
FreePtr(ptr) == ptr

\* Lines 7-9: return malloc(numBytes).
vw_alloc(numBytes) ==
    \E out \in MallocOutcomes(live, AllocSize(numBytes)) :
        /\ live' = IF out = NoRegion THEN live ELSE live \cup {out}
        /\ held' = IF out = NoRegion THEN held ELSE held \cup {out.addr}
        /\ lastCall' = [op |-> "vw_alloc", arg |-> numBytes,
                        requests |-> <<AllocSize(numBytes)>>,
                        answer |-> out, ret |-> out.addr, liveBefore |-> live]
        /\ prevCall' = lastCall
        /\ UNCHANGED decodeVars

\* Lines 14-16: free(ptr).  The caller passes an address it holds, or null.
vw_free(ptr) ==
    /\ live' = FreeOutcome(live, FreePtr(ptr))
    /\ held' = held \ {ptr}
    /\ lastCall' = [op |-> "vw_free", arg |-> ptr,
                    requests |-> <<>>,
                    answer |-> NoRegion, ret |-> NullPtr, liveBefore |-> live]
    /\ prevCall' = lastCall
    /\ UNCHANGED decodeVars

NextMem ==
    \/ \E numBytes \in RequestSizes : vw_alloc(numBytes)
    \/ \E ptr \in held \cup {NullPtr} : vw_free(ptr)

----------------------------------------------------------------------------
(* Initial states.                                                         *)

\* Sample data: byte streams whose consecutive samples differ, repeated as
\* often as the buffer is long.
Waves == { <<0, 128, 255, 127, 1, 0>>,      \* -32768, 32767, 1
           <<52, 18, 0, 0, 255, 255>> }     \* 0x1234, 0, -1
WaveBuffers(n) == { [k \in 1 .. 2 * n |-> w[((k - 1) % Len(w)) + 1]] : w \in Waves }

\* Every source buffer of n samples.
AllBuffers(n) == [1 .. 2 * n -> Bytes]

SourceBuffers(n, every) == IF every THEN AllBuffers(n) ELSE WaveBuffers(n)

NoCallRecord == [op |-> "none", arg |-> 0, requests |-> <<>>,
                 answer |-> NoRegion, ret |-> NullPtr, liveBefore |-> {}]

MemIdle ==
    /\ live = {}
    /\ held = {}
    /\ lastCall = NoCallRecord
    /\ prevCall = NoCallRecord

\* The state in which the invocations in `active` are about to run: invocation p
\* with a sample count from `counts`, and buffers with room for that many
\* samples and for `spare` more (the caller contract asks for at least
\* 2 * numSamples source bytes and numSamples destination floats).  The source
\* holds every byte sequence when `every` is set, else the sample data.
DecodeInit(active, counts, spare, every) ==
    /\ littleEndian \in BOOLEAN
    /\ sizeBits \in SizeWidths
    /\ wraps \in BOOLEAN
    /\ numSamples \in [Calls -> counts \cup {0}]
    /\ \A p \in Calls : IF p \in active THEN numSamples[p] \in counts
                                          ELSE numSamples[p] = 0
    /\ \A p \in Calls : numSamples[p] <= SizeMax(sizeBits)
    /\ \E e \in [Calls -> spare \cup {0}] :
          /\ \A p \in Calls : p \notin active => e[p] = 0
          /\ \E b1 \in SourceBuffers(numSamples[1] + e[1], every),
                b2 \in SourceBuffers(numSamples[2] + e[2], every) :
                src = (1 :> b1) @@ (2 :> b2)
          /\ dst = [p \in Calls |->
                      [k \in 1 .. numSamples[p] + e[p] |-> Unwritten]]
    /\ i = [c \in Calls |-> 0]
    /\ sample = [p \in Calls |-> Indeterminate]
    /\ pc = [p \in Calls |-> IF p \in active THEN "call" ELSE "idle"]
    /\ rlog = [p \in Calls |-> {}]
    /\ wlog = [p \in Calls |-> <<>>]
    /\ overflowed = [p \in Calls |-> FALSE]

\* One invocation on one sample, every pair of source bytes, on a host of
\* either byte order.  One iteration overflows nothing, so one build stands
\* for all: size_t as wide as int.
InitSample ==
    /\ sizeBits = IntBits
    /\ wraps = TRUE
    /\ DecodeInit({1}, {1}, {0}, TRUE)
    /\ MemIdle

\* One invocation, every sample count size_t can hold.
InitLoop ==
    /\ DecodeInit({1}, 0 .. SizeMax(IntBits + 1), {0, 1}, FALSE)
    /\ MemIdle

\* Two invocations on their own buffers, running concurrently.
InitConc ==
    /\ DecodeInit(Calls, 0 .. ConcSamples, {0, 1}, FALSE)
    /\ MemIdle

\* No invocation of the decoder; the host allocates and releases.
InitMem ==
    /\ DecodeInit({}, {0}, {0}, FALSE)
    /\ MemIdle

SpecSample == InitSample /\ [][NextDecode]_vars
SpecLoop == InitLoop /\ [][NextDecode]_vars
SpecConc == InitConc /\ [][NextDecode]_vars
SpecMem == InitMem /\ [][NextMem]_vars

\* The whole module: the host allocates and releases while one invocation of
\* the decoder runs.
Init ==
    /\ DecodeInit({1}, 0 .. ConcSamples, {0}, FALSE)
    /\ MemIdle
Next == NextDecode \/ NextMem
Spec == Init /\ [][Next]_vars

----------------------------------------------------------------------------
(* Properties of vw_pcm16sleDecode.                                        *)

\* The signed 16-bit integer whose little-endian two's complement encoding is
\* the byte pair lo, hi.
Int16OfLE(lo, hi) == LET u == lo + 256 * hi IN IF u >= 32768 THEN u - 65536 ELSE u

\* The float v / 32768.
Normalized(v) == Reduce(v, 32768)

\* -1 <= f < 1
InUnitRange(f) == f[2] > 0 /\ 0 - f[2] <= f[1] /\ f[1] < f[2]

\* The indices 0 .. n-1 in ascending order.
Ascending(n) == [k \in 1 .. n |-> k - 1]

\* C1: on a little-endian host, with numSamples = 1, the call writes
\* dst[0] = v / 32768 for the signed 16-bit v whose little-endian encoding the
\* two source bytes are (0x00,0x80 gives -1, 0xFF,0x7F gives 32767/32768).
C1_SignedOnLittleEndian ==
    (pc[1] = "done" /\ littleEndian /\ numSamples[1] = 1)
        => dst[1][1] = Normalized(Int16OfLE(src[1][1], src[1][2]))

\* C2: the fast path and the byte assembly path write the same value to every
\* dst[k]: what the path taken wrote is what the other path computes from the
\* same bytes.
C2_PathsAgree ==
    pc[1] = "done" =>
        \A k \in 0 .. numSamples[1] - 1 :
            dst[1][k + 1] = DivFloat(IF littleEndian
                                     THEN AssemblySample(src[1], 2 * k, 2 * k + 1)
                                     ELSE FastSample(src[1], k))

\* C3: every sample written lies in [-1, 1).
C3_OutputInUnitRange ==
    pc[1] = "done" =>
        \A k \in 1 .. numSamples[1] : InUnitRange(dst[1][k])

\* C9: on a big-endian host sample k is built with the byte at offset 2k as the
\* low-order byte and the byte at offset 2k+1 as the high-order byte.
C9_AssemblyLowByteFirst ==
    (pc[1] = "done" /\ ~littleEndian) =>
        \A k \in 0 .. numSamples[1] - 1 :
            dst[1][k + 1] = Normalized(Int16OfLE(src[1][2 * k + 1], src[1][2 * k + 2]))

\* C4: the call never changes src, writes dst[0] .. dst[numSamples-1] in turn,
\* each once, writes no other cell, and reads only offsets below 2 * numSamples.
C4_Frame ==
    [][\A p \in Calls :
          /\ src'[p] = src[p]
          /\ rlog'[p] \subseteq 0 .. 2 * numSamples[p] - 1
          /\ wlog'[p] # wlog[p] =>
                /\ wlog'[p] = Append(wlog[p], Len(wlog[p]))
                /\ Len(wlog'[p]) <= numSamples[p]
          /\ pc'[p] = "done" =>
                /\ wlog'[p] = Ascending(numSamples[p])
                /\ \A k \in 1 .. Len(dst'[p]) :
                      (dst'[p][k] = Unwritten) <=> (k > numSamples[p])
       ]_vars

\* C10: the loop ends after numSamples iterations, the counter having taken the
\* values 0 .. numSamples-1 once each, and no operation on the int counter
\* overflows, whatever numSamples is.
C10_CounterNeverOverflows ==
    \A p \in Calls :
        /\ ~overflowed[p]
        /\ i[CounterOf(p)] >= 0
        /\ pc[p] = "done" => wlog[p] = Ascending(numSamples[p])

\* C5: with numSamples = 0 the call reads nothing, writes nothing, leaves both
\* buffers as they were and goes from the loop test straight to its end.
C5_ZeroSamples ==
    [][\A p \in Calls :
          numSamples[p] = 0 =>
              /\ src'[p] = src[p]
              /\ dst'[p] = dst[p]
              /\ rlog'[p] = {}
              /\ wlog'[p] = <<>>
              /\ pc'[p] \in {"idle", "call", "test", "done"}
       ]_vars

\* A call with numSamples = 0 on buffers that are not empty has returned, on a
\* host of either byte order.
C5_Witness ==
    /\ pc[1] = "done"
    /\ numSamples[1] = 0
    /\ Len(src[1]) > 0
    /\ Len(dst[1]) > 0

\* What invocation p leaves in dst when it runs alone: sample k of its source
\* decoded by the path of the host, the spare cells untouched.
AloneResult(p) ==
    [k \in 1 .. Len(dst[p]) |->
        IF k > numSamples[p] THEN Unwritten
        ELSE DivFloat(IF littleEndian THEN FastSample(src[p], k - 1)
                      ELSE AssemblySample(src[p], 2 * (k - 1), 2 * (k - 1) + 1))]

\* C8: under every interleaving of two calls on disjoint buffers, each call
\* leaves in its dst what it leaves there when it runs alone, having written
\* each of its cells once.
C8_ConcurrentAsAlone ==
    \A p \in Calls :
        pc[p] = "done" =>
            /\ dst[p] = AloneResult(p)
            /\ wlog[p] = Ascending(numSamples[p])

\* Call 1 has returned while call 2, started before that, is in the middle of
\* its loop; both decode several samples.
C8_Witness ==
    /\ pc[1] = "done"
    /\ numSamples[1] = ConcSamples
    /\ numSamples[2] = ConcSamples
    /\ pc[2] = "store"
    /\ Len(wlog[2]) = 1
    /\ dst[1] = AloneResult(1)

----------------------------------------------------------------------------
(* Properties of vw_alloc and vw_free.                                     *)

\* C6: vw_alloc asks the host allocator once, for numBytes, and returns its
\* answer: on failure the null pointer, the allocated regions unchanged; on
\* success the address of one newly allocated region of at least numBytes.
C6_AllocPassesThrough ==
    lastCall.op = "vw_alloc" =>
        /\ lastCall.requests = <<lastCall.arg>>
        /\ lastCall.ret = lastCall.answer.addr
        /\ lastCall.ret = NullPtr => live = lastCall.liveBefore
        /\ lastCall.ret # NullPtr =>
              \E r \in live :
                  /\ r.addr = lastCall.ret
                  /\ r.size >= lastCall.arg
                  /\ r \notin lastCall.liveBefore
                  /\ live = lastCall.liveBefore \cup {r}

\* vw_alloc has failed with a region allocated, and before that it succeeded.
C6_Witness ==
    /\ lastCall.op = "vw_alloc"
    /\ lastCall.ret = NullPtr
    /\ lastCall.arg > HeapBytes
    /\ prevCall.op = "vw_alloc"
    /\ prevCall.ret # NullPtr
    /\ prevCall.arg > 0
    /\ live # {}

\* C7: the allocated regions are those at the addresses vw_alloc returned and
\* vw_free was not yet given, one region each; and vw_free of the address
\* vw_alloc just returned leaves the allocated regions as they were before.
C7_LiveIsHeld ==
    /\ { r.addr : r \in live } = held
    /\ Cardinality(live) = Cardinality(held)
    /\ (/\ lastCall.op = "vw_free"
        /\ prevCall.op = "vw_alloc"
        /\ prevCall.ret # NullPtr
        /\ lastCall.arg = prevCall.ret) => live = prevCall.liveBefore

\* An allocation was released right after it was made, another one still held.
C7_Witness ==
    /\ lastCall.op = "vw_free"
    /\ prevCall.op = "vw_alloc"
    /\ prevCall.ret # NullPtr
    /\ lastCall.arg = prevCall.ret
    /\ prevCall.liveBefore # {}
    /\ live = prevCall.liveBefore

====
